---------------------------- MODULE Spec2Model ----------------------------
(***************************************************************************)
(* Transcript ingestion pipeline of the couple-analyzer dashboard          *)
(* (frontend/src/pages/DashboardScreen.jsx): format detection, the tabular *)
(* and labeled-turn parsers, the system-message filter, the role binder    *)
(* (applySpeakerMapping) and the dashboard handlers that use them.         *)
(*                                                                         *)
(* A JavaScript string is a sequence of one-character strings.  Characters *)
(* outside ASCII are written as named tokens ("<nim>" for U+B2D8, ...).    *)
(***************************************************************************)
EXTENDS Integers, Sequences, FiniteSets, TLC

\* --------------------------------------------------------------------------
\* Characters
\* --------------------------------------------------------------------------
DQ    == "\""
SQ    == "'"
COMMA == ","
NL    == "\n"
SP    == " "
COLON == ":"

\* String.prototype.trim and the regex class \s: the white space of the inputs
WS == {SP, NL, "\t", "\r"}

\* the regex "." matches everything but line terminators
LineTerminator == {NL, "\r"}

\* null (a timestamp is never the empty string: ts || null)
Null == <<>>

Min(a, b) == IF a < b THEN a ELSE b

\* --------------------------------------------------------------------------
\* String primitives
\* --------------------------------------------------------------------------
\* the first position >= from where s holds ch, 0 when there is none
\* (String.prototype.indexOf, positions counted from 1)
IndexOf(s, ch, from) ==
    LET hits == {i \in from..Len(s) : s[i] = ch}
    IN  IF hits = {} THEN 0 ELSE CHOOSE i \in hits : \A j \in hits : i <= j

\* String.prototype.includes
Includes(s, sub) ==
    \E i \in 1..(Len(s) - Len(sub) + 1) : SubSeq(s, i, i + Len(sub) - 1) = sub

\* a trim that takes line breaks and tabs off and leaves the spaces
Trim_KeepsSpaces(s) ==
    LET keep == {i \in 1..Len(s) : s[i] \notin (WS \ {SP})}
    IN  IF keep = {} THEN <<>>
        ELSE SubSeq(s, CHOOSE i \in keep : \A j \in keep : i <= j,
                       CHOOSE i \in keep : \A j \in keep : i >= j)

\* String.prototype.trim
Trim(s) ==
    LET keep == {i \in 1..Len(s) : s[i] \notin WS}
    IN  IF keep = {} THEN <<>>
        ELSE SubSeq(s, CHOOSE i \in keep : \A j \in keep : i <= j,
                       CHOOSE i \in keep : \A j \in keep : i >= j)

\* String.prototype.toLowerCase on one character, then on a string
LowerChar(c) ==
    CASE c = "P" -> "p" [] c = "H" -> "h" [] c = "O" -> "o" [] c = "T" -> "t"
      [] c = "V" -> "v" [] c = "I" -> "i" [] c = "D" -> "d" [] c = "E" -> "e"
      [] c = "M" -> "m" [] c = "A" -> "a" [] c = "R" -> "r" [] c = "N" -> "n"
      [] c = "B" -> "b" [] c = "C" -> "c"
      [] OTHER -> c

toLowerCase(s) == [i \in 1..Len(s) |-> LowerChar(s[i])]

\* Array.prototype.join(",") on a list of strings
RECURSIVE JoinComma(_)
JoinComma(fields) ==
    IF Len(fields) = 0 THEN <<>>
    ELSE IF Len(fields) = 1 THEN fields[1]
    ELSE fields[1] \o <<COMMA>> \o JoinComma(Tail(fields))

\* String.prototype.split on "\n" (parseSimpleChat splits on /\r?\n/; the
\* inputs hold no "\r", and a "\r" left on a line would be trimmed away)
RECURSIVE SplitLines(_)
SplitLines(s) ==
    LET n == IndexOf(s, NL, 1)
    IN  IF n = 0 THEN <<s>>
        ELSE <<SubSeq(s, 1, n - 1)>> \o SplitLines(SubSeq(s, n + 1, Len(s)))

\* --------------------------------------------------------------------------
\* Field helpers of the tabular parser
\* --------------------------------------------------------------------------
stripQuotes(s) ==
    LET t == Trim(s)
    IN  IF Len(t) >= 1 /\ ((t[1] = DQ /\ t[Len(t)] = DQ) \/ (t[1] = SQ /\ t[Len(t)] = SQ))
        THEN SubSeq(t, 2, Len(t) - 1)
        ELSE t

\* /,\s*".+"\s*,\s*".+/.test(raw)
CsvRegexMatches(raw) ==
    \E i \in 1..Len(raw) :
      /\ raw[i] = COMMA
      /\ \E a \in (i + 1)..Len(raw) :
           /\ raw[a] = DQ
           /\ \A k \in (i + 1)..(a - 1) : raw[k] \in WS
           /\ \E b \in (a + 2)..Len(raw) :
                /\ raw[b] = DQ
                /\ \A k \in (a + 1)..(b - 1) : raw[k] \notin LineTerminator
                /\ \E c \in (b + 1)..Len(raw) :
                     /\ raw[c] = COMMA
                     /\ \A k \in (b + 1)..(c - 1) : raw[k] \in WS
                     /\ \E d \in (c + 1)..(Len(raw) - 1) :
                          /\ raw[d] = DQ
                          /\ \A k \in (c + 1)..(d - 1) : raw[k] \in WS
                          /\ raw[d + 1] \notin LineTerminator

\* looksLikeCsv taking any comma for a delimiter
looksLikeCsv_AnyComma(raw) ==
    Includes(raw, <<COMMA>>)

looksLikeCsv(raw) ==
    Includes(raw, <<DQ, COMMA, DQ>>) \/ CsvRegexMatches(raw)

\* the marker phrases of a membership notice
KoNimI      == <<"<nim>", "<i>">>
KoLeft      == <<"<na>", "<gat>", "<seup>", "<ni>", "<da>">>
KoInvited   == <<"<cho>", "<dae>", "<haet>", "<seup>", "<ni>", "<da>">>
PHOTO       == <<"p", "h", "o", "t", "o">>
VIDEO       == <<"v", "i", "d", "e", "o">>

\* isSystemLikeText comparing the placeholders letter for letter
isSystemLikeText_ExactCase(text) ==
    LET t == Trim(text)
    IN  IF t = <<>> THEN TRUE
        ELSE IF t = PHOTO \/ t = VIDEO THEN TRUE
        ELSE IF Includes(t, KoNimI) /\ (Includes(t, KoLeft) \/ Includes(t, KoInvited)) THEN TRUE
        ELSE FALSE

isSystemLikeText(text) ==
    LET t == Trim(text)
        lower == toLowerCase(t)
    IN  IF t = <<>> THEN TRUE
        ELSE IF lower = PHOTO \/ lower = VIDEO THEN TRUE
        ELSE IF Includes(t, KoNimI) /\ (Includes(t, KoLeft) \/ Includes(t, KoInvited)) THEN TRUE
        ELSE FALSE


\* --------------------------------------------------------------------------
\* Papa.parse(raw, { header: false, skipEmptyLines: true })
\* No delimiter is configured, so it is guessed among , TAB | ; and falls back
\* to the comma; the inputs hold none of the others.  The newline is guessed
\* as "\n" (the inputs hold no "\r").  quoteChar = escapeChar = '"'.
\* --------------------------------------------------------------------------
\* value.replace(/""/g, '"') on the content of a quoted field
RECURSIVE Unescape(_)
Unescape(s) ==
    IF Len(s) < 2 THEN s
    ELSE IF s[1] = DQ /\ s[2] = DQ THEN <<DQ>> \o Unescape(SubSeq(s, 3, Len(s)))
    ELSE <<s[1]>> \o Unescape(Tail(s))

\* extraSpaces(index): the white space between the closing quote at q and index
ExtraSpaces(input, q, index) ==
    IF index = 0 THEN 0
    ELSE LET between == SubSeq(input, q + 1, index - 1)
         IN  IF between # <<>> /\ Trim(between) = <<>> THEN Len(between) ELSE 0

CharAt(input, i) == IF i >= 1 /\ i <= Len(input) THEN input[i] ELSE "<undefined>"

RECURSIVE ParseFrom(_, _, _, _)
RECURSIVE QuotedFrom(_, _, _, _, _)

\* inside a quoted field whose content starts at cursor; qs is the position
\* the search for the closing quote starts after
QuotedFrom(input, cursor, qs, row, data) ==
    LET q == IndexOf(input, DQ, qs + 1)
    IN  IF q = 0
        THEN \* no closing quote: the rest of the input is the field
             Append(data, Append(row, SubSeq(input, cursor, Len(input))))
        ELSE IF q = Len(input)
        THEN \* closing quote at the end of the input
             Append(data, Append(row, Unescape(SubSeq(input, cursor, q - 1))))
        ELSE IF input[q + 1] = DQ
        THEN \* an escaped quote is data
             QuotedFrom(input, cursor, q + 1, row, data)
        ELSE LET nextDelim   == IndexOf(input, COMMA, q + 1)
                 nextNewline == IndexOf(input, NL, q + 1)
                 checkUpTo   == IF nextNewline = 0 THEN nextDelim
                                ELSE Min(nextDelim, nextNewline)
                 sp1   == ExtraSpaces(input, q, checkUpTo)
                 sp2   == ExtraSpaces(input, q, nextNewline)
                 value == Unescape(SubSeq(input, cursor, q - 1))
             IN  IF CharAt(input, q + 1 + sp1) = COMMA
                 THEN ParseFrom(input, q + 1 + sp1 + 1, Append(row, value), data)
                 ELSE IF CharAt(input, q + 1 + sp2) = NL
                 THEN ParseFrom(input, q + 1 + sp2 + 1, <<>>, Append(data, Append(row, value)))
                 ELSE \* a quote inside the text: keep looking
                      QuotedFrom(input, cursor, q + 1, row, data)

\* the parser loop, at the start of a field
ParseFrom(input, cursor, row, data) ==
    IF CharAt(input, cursor) = DQ
    THEN QuotedFrom(input, cursor + 1, cursor, row, data)
    ELSE LET nextDelim   == IndexOf(input, COMMA, cursor)
             nextNewline == IndexOf(input, NL, cursor)
         IN  IF nextDelim # 0 /\ (nextDelim < nextNewline \/ nextNewline = 0)
             THEN ParseFrom(input, nextDelim + 1,
                            Append(row, SubSeq(input, cursor, nextDelim - 1)), data)
             ELSE IF nextNewline # 0
             THEN ParseFrom(input, nextNewline + 1, <<>>,
                            Append(data, Append(row, SubSeq(input, cursor, nextNewline - 1))))
             ELSE \* finish(): what is left is the last field of the last row
                  Append(data, Append(row, SubSeq(input, cursor, Len(input))))

\* skipEmptyLines: true drops the rows that are one empty field
IsEmptyLine(row) == Len(row) = 1 /\ Len(row[1]) = 0

PapaParse(raw) ==
    IF raw = <<>> THEN <<>>
    ELSE SelectSeq(ParseFrom(raw, 1, <<>>, <<>>), LAMBDA row : ~IsEmptyLine(row))

\* --------------------------------------------------------------------------
\* Messages
\* --------------------------------------------------------------------------
ME      == <<"m", "e">>
PARTNER == <<"p", "a", "r", "t", "n", "e", "r">>

\* the template `m${i}`
MId(i) == <<"m", i>>

Msg(id, speaker, ts, text) == [id |-> id, speaker |-> speaker, ts |-> ts, text |-> text]

\* row.slice(2).join(","): the fields after timestamp and sender
RowText(row) == JoinComma(SubSeq(row, 3, Len(row)))

\* CsvLoop with the text cut to the third field
RECURSIVE CsvLoop_FieldTwoOnly(_, _, _, _)
CsvLoop_FieldTwoOnly(rows, k, msgs, i) ==
    IF k > Len(rows) THEN msgs
    ELSE LET row    == rows[k]
             ts     == stripQuotes(row[1])
             sender == stripQuotes(row[2])
             text   == stripQuotes(row[3])
         IN  IF Len(row) < 3 THEN CsvLoop_FieldTwoOnly(rows, k + 1, msgs, i)
             ELSE IF isSystemLikeText(text) THEN CsvLoop_FieldTwoOnly(rows, k + 1, msgs, i)
             ELSE CsvLoop_FieldTwoOnly(rows, k + 1,
                          Append(msgs, Msg(MId(i), sender,
                                           IF ts # <<>> THEN ts ELSE Null, text)),
                          i + 1)

\* CsvLoop with i counting every row, kept or not
RECURSIVE CsvLoop_IdPerRow(_, _, _, _)
CsvLoop_IdPerRow(rows, k, msgs, i) ==
    IF k > Len(rows) THEN msgs
    ELSE LET row    == rows[k]
             ts     == stripQuotes(row[1])
             sender == stripQuotes(row[2])
             text   == stripQuotes(RowText(row))
         IN  IF Len(row) < 3 THEN CsvLoop_IdPerRow(rows, k + 1, msgs, i + 1)
             ELSE IF isSystemLikeText(text) THEN CsvLoop_IdPerRow(rows, k + 1, msgs, i + 1)
             ELSE CsvLoop_IdPerRow(rows, k + 1,
                          Append(msgs, Msg(MId(i), sender,
                                           IF ts # <<>> THEN ts ELSE Null, text)),
                          i + 1)

\* CsvLoop with a row of fewer than 3 fields using up an id
RECURSIVE CsvLoop_ShortRowTakesId(_, _, _, _)
CsvLoop_ShortRowTakesId(rows, k, msgs, i) ==
    IF k > Len(rows) THEN msgs
    ELSE LET row    == rows[k]
             ts     == stripQuotes(row[1])
             sender == stripQuotes(row[2])
             text   == stripQuotes(RowText(row))
         IN  IF Len(row) < 3 THEN CsvLoop_ShortRowTakesId(rows, k + 1, msgs, i + 1)
             ELSE IF isSystemLikeText(text) THEN CsvLoop_ShortRowTakesId(rows, k + 1, msgs, i)
             ELSE CsvLoop_ShortRowTakesId(rows, k + 1,
                          Append(msgs, Msg(MId(i), sender,
                                           IF ts # <<>> THEN ts ELSE Null, text)),
                          i + 1)

\* the for loop of parseKakaoCsvRaw over rows k.., with msgs and i
RECURSIVE CsvLoop(_, _, _, _)
CsvLoop(rows, k, msgs, i) ==
    IF k > Len(rows) THEN msgs
    ELSE LET row    == rows[k]
             ts     == stripQuotes(row[1])
             sender == stripQuotes(row[2])
             text   == stripQuotes(RowText(row))
         IN  IF Len(row) < 3 THEN CsvLoop(rows, k + 1, msgs, i)
             ELSE IF isSystemLikeText(text) THEN CsvLoop(rows, k + 1, msgs, i)
             ELSE CsvLoop(rows, k + 1,
                          Append(msgs, Msg(MId(i), sender,
                                           IF ts # <<>> THEN ts ELSE Null, text)),
                          i + 1)

parseKakaoCsvRaw(raw) == CsvLoop(PapaParse(raw), 1, <<>>, 1)

\* --------------------------------------------------------------------------
\* parseSimpleChat: the open turn cur is <<>> (null) or <<turn>>
\* --------------------------------------------------------------------------
LabelMe      == <<"m", "e", COLON>>
LabelPartner == <<"p", "a", "r", "t", "n", "e", "r", COLON>>

\* trimmed.match(/^<label>\s*(.*)$/i): does the line start with the label
MatchesLabel(trimmed, label) ==
    /\ Len(trimmed) >= Len(label)
    /\ toLowerCase(SubSeq(trimmed, 1, Len(label))) = label

\* the capture group: what follows the label and the white space after it
\* (the line is trimmed, so trimming the rest only removes leading space)
LabelRemainder(trimmed, label) ==
    Trim(SubSeq(trimmed, Len(label) + 1, Len(trimmed)))

pushCur(st) ==
    IF st.cur = <<>> THEN st
    ELSE LET text == Trim(st.cur[1].text)
         IN  [msgs |-> IF text # <<>>
                       THEN Append(st.msgs, [st.cur[1] EXCEPT !.text = text])
                       ELSE st.msgs,
              cur  |-> <<>>]

OpenTurn(st, speaker, text) ==
    [msgs |-> st.msgs,
     cur  |-> <<Msg(MId(Len(st.msgs) + 1), speaker, Null, text)>>]

\* SimpleStep appending the line as it is, not trimmed
SimpleStep_AppendsRawLine(st, line) ==
    LET trimmed == Trim(line)
    IN  IF trimmed = <<>> THEN st
        ELSE IF MatchesLabel(trimmed, LabelMe)
        THEN OpenTurn(pushCur(st), ME, LabelRemainder(trimmed, LabelMe))
        ELSE IF MatchesLabel(trimmed, LabelPartner)
        THEN OpenTurn(pushCur(st), PARTNER, LabelRemainder(trimmed, LabelPartner))
        ELSE IF st.cur = <<>>
        THEN OpenTurn(st, ME, trimmed)
        ELSE [st EXCEPT !.cur[1].text = @ \o <<NL>> \o line]

\* SimpleStep giving a turn without a label to the other role
SimpleStep_DefaultPartner(st, line) ==
    LET trimmed == Trim(line)
    IN  IF trimmed = <<>> THEN st
        ELSE IF MatchesLabel(trimmed, LabelMe)
        THEN OpenTurn(pushCur(st), ME, LabelRemainder(trimmed, LabelMe))
        ELSE IF MatchesLabel(trimmed, LabelPartner)
        THEN OpenTurn(pushCur(st), PARTNER, LabelRemainder(trimmed, LabelPartner))
        ELSE IF st.cur = <<>>
        THEN OpenTurn(st, PARTNER, trimmed)
        ELSE [st EXCEPT !.cur[1].text = @ \o <<NL>> \o trimmed]

\* the body of the for loop over lines
SimpleStep(st, line) ==
    LET trimmed == Trim(line)
    IN  IF trimmed = <<>> THEN st
        ELSE IF MatchesLabel(trimmed, LabelMe)
        THEN OpenTurn(pushCur(st), ME, LabelRemainder(trimmed, LabelMe))
        ELSE IF MatchesLabel(trimmed, LabelPartner)
        THEN OpenTurn(pushCur(st), PARTNER, LabelRemainder(trimmed, LabelPartner))
        ELSE IF st.cur = <<>>
        THEN OpenTurn(st, ME, trimmed)
        ELSE [st EXCEPT !.cur[1].text = @ \o <<NL>> \o trimmed]

\* the parser state after the first k lines
RECURSIVE SimpleAfter(_, _)
SimpleAfter(lines, k) ==
    IF k = 0 THEN [msgs |-> <<>>, cur |-> <<>>]
    ELSE SimpleStep(SimpleAfter(lines, k - 1), lines[k])

parseSimpleChat(raw) ==
    LET lines == SplitLines(raw)
    IN  pushCur(SimpleAfter(lines, Len(lines))).msgs

parseChatAny(raw) ==
    IF looksLikeCsv(raw) THEN parseKakaoCsvRaw(raw) ELSE parseSimpleChat(raw)


\* --------------------------------------------------------------------------
\* State of DashboardScreen (the useState hooks) and the requests in flight.
\* Left out is the state that is only displayed and that no handler reads:
\* selectedCharacter and the flags that show or
\* hide a dialog.  The character list dialog can be opened at any time
\* (Browse All), so the two buttons of a character card are always within
\* reach; the list itself is fetched from the backend.
\* --------------------------------------------------------------------------
VARIABLES raw, useMock, loading, messages, meName, partnerName, result, error,
          inflight

\* the dashboard: the variables above
dashboard == <<raw, useMock, loading, messages, meName, partnerName, result, error,
               inflight>>

\* --------------------------------------------------------------------------
\* State outside DashboardScreen: the identity provider (auth.currentUser,
\* the observer registered by AuthProvider), the state of AuthProvider, the
\* users/ documents, and the calls of the backend client (utils/api.js)
\* --------------------------------------------------------------------------
VARIABLES currentUser, subscribed, user, initializing, authCallbacks, profiles,
          calls

session == <<currentUser, subscribed, user, initializing, authCallbacks, profiles,
             calls>>

vars == <<raw, useMock, loading, messages, meName, partnerName, result, error,
          inflight, currentUser, subscribed, user, initializing, authCallbacks,
          profiles, calls>>

\* null for a user, and the users of the identity provider
NoUser == "null"
Users  == {"u1", "u2"}

\* App renders DashboardScreen once initializing is false and user is set
SignedIn ==
    /\ currentUser = "u1"
    /\ subscribed = "yes"
    /\ user = "u1"
    /\ initializing = FALSE
    /\ authCallbacks = <<>>
    /\ profiles = {"u1"}
    /\ calls = <<>>

\* --------------------------------------------------------------------------
\* Error messages (the texts are Korean; each is named by what it says)
\* --------------------------------------------------------------------------
MsgIncomplete    == "CSV input needs the Me/Partner name mapping first"
MsgAmbiguous     == "Me/Partner must be different names"
MsgTooFewParse   == "too few messages (mapping/filter may have dropped some)"
MsgTooFewAnalyze == "too few messages, check after Parse"
MsgNoNewMessages == "no new messages to analyze"
MsgMockCharacter == "character analysis is not supported in mock mode"
MsgRequestFailed == "Request failed"

\* results: null, the canned MOCK_RESULT, or what the backend computed for msgs
NoResult       == [kind |-> "null", of |-> <<>>]
MOCK_RESULT    == [kind |-> "mock", of |-> <<>>]
Analysis(msgs) == [kind |-> "analysis", of |-> msgs]

\* --------------------------------------------------------------------------
\* Derived values (useMemo)
\* --------------------------------------------------------------------------
parsedPreview == parseChatAny(raw)
isCsvInput    == looksLikeCsv(raw)

\* the loop of uniqueSpeakers on the speaker values as they are, not trimmed
RECURSIVE SpeakersLoop_NoTrim(_, _, _)
SpeakersLoop_NoTrim(msgs, k, set) ==
    IF k > Len(msgs) THEN set
    ELSE LET s == msgs[k].speaker
         IN  IF s = <<>> THEN SpeakersLoop_NoTrim(msgs, k + 1, set)
             ELSE IF s = ME \/ s = PARTNER THEN SpeakersLoop_NoTrim(msgs, k + 1, set)
             ELSE IF \E j \in 1..Len(set) : set[j] = s
             THEN SpeakersLoop_NoTrim(msgs, k + 1, set)
             ELSE SpeakersLoop_NoTrim(msgs, k + 1, Append(set, s))

\* the Set of the loop of uniqueSpeakers, in insertion order, over msgs k..
RECURSIVE SpeakersLoop(_, _, _)
SpeakersLoop(msgs, k, set) ==
    IF k > Len(msgs) THEN set
    ELSE LET s == Trim(msgs[k].speaker)
         IN  IF s = <<>> THEN SpeakersLoop(msgs, k + 1, set)
             ELSE IF s = ME \/ s = PARTNER THEN SpeakersLoop(msgs, k + 1, set)
             ELSE IF \E j \in 1..Len(set) : set[j] = s
             THEN SpeakersLoop(msgs, k + 1, set)
             ELSE SpeakersLoop(msgs, k + 1, Append(set, s))

uniqueSpeakers == SpeakersLoop(parsedPreview, 1, <<>>)

\* --------------------------------------------------------------------------
\* applySpeakerMapping: ok = FALSE stands for the thrown Error(err)
\* --------------------------------------------------------------------------
Thrown(err)    == [ok |-> FALSE, msgs |-> <<>>, err |-> err]
Returned(msgs) == [ok |-> TRUE, msgs |-> msgs, err |-> ""]

\* MapLoop leaving the sender's name in place
RECURSIVE MapLoop_KeepsName(_, _, _, _)
MapLoop_KeepsName(msgs, k, mapped, i) ==
    IF k > Len(msgs) THEN mapped
    ELSE LET m == msgs[k]
             s == Trim(m.speaker)
         IN  IF s = meName \/ s = partnerName
             THEN MapLoop_KeepsName(msgs, k + 1,
                                    Append(mapped, [m EXCEPT !.id = MId(i)]), i + 1)
             ELSE MapLoop_KeepsName(msgs, k + 1, mapped, i)

\* the for loop of applySpeakerMapping over msgs k.., with mapped and i
\* applySpeakerMapping keeping the ids of the parser
RECURSIVE MapLoop_KeepsId(_, _, _, _)
MapLoop_KeepsId(msgs, k, mapped, i) ==
    IF k > Len(msgs) THEN mapped
    ELSE LET m == msgs[k]
             s == Trim(m.speaker)
         IN  IF s = meName
             THEN MapLoop_KeepsId(msgs, k + 1, Append(mapped, [m EXCEPT !.speaker = ME]), i + 1)
             ELSE IF s = partnerName
             THEN MapLoop_KeepsId(msgs, k + 1,
                                  Append(mapped, [m EXCEPT !.speaker = PARTNER]), i + 1)
             ELSE MapLoop_KeepsId(msgs, k + 1, mapped, i)

RECURSIVE MapLoop(_, _, _, _)
MapLoop(msgs, k, mapped, i) ==
    IF k > Len(msgs) THEN mapped
    ELSE LET m == msgs[k]
             s == Trim(m.speaker)
         IN  IF s = meName
             THEN MapLoop(msgs, k + 1,
                          Append(mapped, [m EXCEPT !.id = MId(i), !.speaker = ME]), i + 1)
             ELSE IF s = partnerName
             THEN MapLoop(msgs, k + 1,
                          Append(mapped, [m EXCEPT !.id = MId(i), !.speaker = PARTNER]), i + 1)
             ELSE MapLoop(msgs, k + 1, mapped, i)

\* applySpeakerMapping binding whatever the format
applySpeakerMapping_AnyFormat(msgs) ==
    IF meName = <<>> \/ partnerName = <<>> THEN Thrown(MsgIncomplete)
    ELSE IF meName = partnerName THEN Thrown(MsgAmbiguous)
    ELSE Returned(MapLoop(msgs, 1, <<>>, 1))

\* applySpeakerMapping without the check for identical names
applySpeakerMapping_NoAmbiguityCheck(msgs) ==
    IF ~isCsvInput THEN Returned(msgs)
    ELSE IF meName = <<>> \/ partnerName = <<>> THEN Thrown(MsgIncomplete)
    ELSE Returned(MapLoop(msgs, 1, <<>>, 1))

\* applySpeakerMapping with its two checks in the other order
applySpeakerMapping_AmbiguityFirst(msgs) ==
    IF ~isCsvInput THEN Returned(msgs)
    ELSE IF meName = partnerName THEN Thrown(MsgAmbiguous)
    ELSE IF meName = <<>> \/ partnerName = <<>> THEN Thrown(MsgIncomplete)
    ELSE Returned(MapLoop(msgs, 1, <<>>, 1))

applySpeakerMapping(msgs) ==
    IF ~isCsvInput THEN Returned(msgs)
    ELSE IF meName = <<>> \/ partnerName = <<>> THEN Thrown(MsgIncomplete)
    ELSE IF meName = partnerName THEN Thrown(MsgAmbiguous)
    ELSE Returned(MapLoop(msgs, 1, <<>>, 1))


\* --------------------------------------------------------------------------
\* Inputs: the texts a user types, pastes or uploads
\* --------------------------------------------------------------------------
\* the text the textarea starts with (Korean words are tokens)
InitialRaw ==
    << "M", "e", ":", " ", "<oneul>", " ", "<jom>", " ", "<himdeureosseo>",
       "\n", "P", "a", "r", "t", "n", "e", "r", ":", " ", "<museun>", " ",
       "<il>", " ", "<isseosseo>", "?", "\n", "M", "e", ":", " ",
       "<geunyang>", " ", "<yeoreo>", " ", "<gaji>", "<ellipsis>", "\n",
       "P", "a", "r", "t", "n", "e", "r", ":", " ", "<malhaejwo>", ".",
       " ", "<deutgo>", " ", "<sipeo>", "\n", "M", "e", ":", " ",
       "<gomawo>", ".", " ", "<sasireun>", ".", ".", ".", "\n", "P", "a",
       "r", "t", "n", "e", "r", ":", " ", "<eungeung>" >>
\* the row of the specification's example
RowAlice ==
    << "2", "0", "2", "5", "-", "1", "0", "-", "0", "3", " ", "1", "1",
       ":", "5", "1", ":", "3", "6", ",", "\"", "A", "l", "i", "c", "e",
       "\"", ",", "\"", "h", "e", "l", "l", "o", ",", " ", "w", "o", "r",
       "l", "d", "\"" >>
RowA ==
    << "1", ",", "\"", "A", "\"", ",", "\"", "h", "i", "\"" >>
RowB ==
    << "2", ",", "\"", "B", "\"", ",", "\"", "y", "o", "\"" >>
RowC ==
    << "3", ",", "\"", "C", "\"", ",", "\"", "o", "k", "\"" >>
\* unquoted fields, a comma in the text
RowBare ==
    << "4", ",", "B", ",", "a", ",", "b" >>
\* a media placeholder
RowPhoto ==
    << "5", ",", "\"", "A", "\"", ",", "\"", "P", "h", "o", "t", "o", "\"" >>
\* an inner pair of quotes around padded text
RowPadded ==
    << "6", ",", "\"", "B", "\"", ",", "\"", "'", " ", "x", " ", "'", "\"" >>
\* fewer than three fields
RowShort ==
    << "7", ",", "\"", "A", "\"" >>
\* a membership notice
RowNotice ==
    << "8", ",", "\"", "A", "\"", ",", "\"", "B", "<nim>", "<i>", " ", "<na>", "<gat>",
       "<seup>", "<ni>", "<da>", "\"" >>
\* a sender that is one quote character
RowLoneQuote ==
    << "9", ",", "'", ",", "h", "i" >>
\* a padded sender that is a role name once trimmed
RowCanon ==
    << "3", ",", "\"", "'", " ", "m", "e", " ", "'", "\"", ",", "\"", "o", "k", "\"" >>
\* quoted fields with white space around them
RowSpaced ==
    << "1", ",", " ", "\"", "A", "\"", " ", ",", " ", "\"", "h", "i", "\"" >>
LineMe ==
    << "M", "e", ":", " ", "l", "i", "n", "e", "1" >>
LineMore ==
    << "m", "o", "r", "e" >>
\* a line with white space around it
LineIndented ==
    << " ", "t", "o", "o", " " >>
LinePartner ==
    << "P", "a", "r", "t", "n", "e", "r", ":", " ", "r", "e", "p", "l", "y" >>
\* a label with nothing after it
LineMeEmpty ==
    << "M", "E", ":" >>
\* a blank line
LineBlank ==
    << " " >>
\* a labeled turn whose text is a media placeholder
LineMePhoto ==
    << "M", "e", ":", " ", "P", "h", "o", "t", "o" >>

\* the lines a transcript is made of, and the transcripts of at most
\* MaxLines lines
MaxLines == 3

ParseLines ==
    {RowAlice, RowA, RowBare, RowPhoto, RowPadded, RowShort, RowNotice,
     RowLoneQuote, RowCanon, RowSpaced,
     LineMe, LineMore, LineIndented, LinePartner, LineMeEmpty, LineBlank,
     LineMePhoto}

RECURSIVE JoinLines(_)
JoinLines(ls) ==
    IF Len(ls) = 0 THEN <<>>
    ELSE IF Len(ls) = 1 THEN ls[1]
    ELSE ls[1] \o <<NL>> \o JoinLines(Tail(ls))

ParseRaws ==
    {JoinLines(ls) : ls \in UNION {[1..n -> ParseLines] : n \in 0..MaxLines}}

\* the sender names a binding is made of
NameA == <<"A">>
NameB == <<"B">>
NameC == <<"C">>

BindNames == {<<>>, NameA, NameB, NameC}

\* the texts of the dashboard runs
DashRaws ==
    {InitialRaw, <<>>, JoinLines(<<RowA, RowB>>)}

\* the characters the backend holds for the user, with their messages
CharacterIds == {"c1"}

TextHelloWorld == <<"h", "e", "l", "l", "o", ",", " ", "w", "o", "r", "l", "d">>
TextLine1More == <<"l", "i", "n", "e", "1", NL, "m", "o", "r", "e">>
TextReply == <<"r", "e", "p", "l", "y">>
StoredMessages(id) ==
    CASE id = "c2" ->
           \* a turn of two lines, as the labeled-turn parser makes them
           << Msg(MId(1), ME, Null, TextLine1More),
              Msg(MId(2), PARTNER, Null, TextReply) >>
      [] id = "c3" ->
           \* two turns in a row by one speaker
           << Msg(MId(1), PARTNER, Null, <<"y", "o">>),
              Msg(MId(2), PARTNER, Null, TextHelloWorld) >>
      [] id = "c4" ->
           \* a text with quotes in it, bound from the tabular row
           \* 1,"A","x"",""y"
           << Msg(MId(1), ME, <<"1">>, <<"x", DQ, COMMA, DQ, "y">>),
              Msg(MId(2), PARTNER, <<"2">>, <<"y", "o">>) >>
      [] OTHER ->
           << Msg(MId(1), ME, Null, <<"h", "i">>),
              Msg(MId(2), PARTNER, Null, <<"y", "o">>) >>

\* the characters of the runs that load them
LoadIds == {"c1", "c2", "c3", "c4"}

\* the most requests in flight at once
MaxInflight == 1

RemoveAt(seq, i) == SubSeq(seq, 1, i - 1) \o SubSeq(seq, i + 1, Len(seq))

Range(seq) == {seq[i] : i \in 1..Len(seq)}

\* --------------------------------------------------------------------------
\* Construction
\* --------------------------------------------------------------------------
Init ==
    /\ raw = InitialRaw
    /\ useMock = TRUE
    /\ loading = FALSE
    /\ messages = <<>>
    /\ meName = <<>>
    /\ partnerName = <<>>
    /\ result = NoResult
    /\ error = ""
    /\ inflight = <<>>
    /\ SignedIn

\* --------------------------------------------------------------------------
\* Input controls
\* --------------------------------------------------------------------------
\* textarea onChange
SetRaw(text) ==
    /\ raw' = text
    /\ UNCHANGED <<useMock, loading, messages, meName, partnerName, result, error, inflight>>

\* what follows await file.text()
onUploadFile(text) ==
    /\ raw' = text
    /\ messages' = <<>>
    /\ result' = NoResult
    /\ error' = ""
    /\ meName' = <<>>
    /\ partnerName' = <<>>
    /\ UNCHANGED <<useMock, loading,
                   inflight>>

\* the Clear button
ClearClick ==
    /\ raw' = <<>>
    /\ messages' = <<>>
    /\ result' = NoResult
    /\ error' = ""
    /\ meName' = <<>>
    /\ partnerName' = <<>>
    /\ UNCHANGED <<useMock, loading,
                   inflight>>

\* the mock/api select
SetUseMock(b) ==
    /\ useMock' = b
    /\ UNCHANGED <<raw, loading, messages, meName, partnerName, result, error, inflight>>

\* the options of the two selects of the mapping panel
NameOptions == {<<>>} \cup Range(uniqueSpeakers)

SetMeName(n) ==
    /\ isCsvInput
    /\ n \in NameOptions
    /\ meName' = n
    /\ UNCHANGED <<raw, useMock, loading, messages, partnerName, result, error, inflight>>

SetPartnerName(n) ==
    /\ isCsvInput
    /\ n \in NameOptions
    /\ partnerName' = n
    /\ UNCHANGED <<raw, useMock, loading, messages, meName, result, error, inflight>>

\* autoAssignIfTwo assigning the first name to both roles
autoAssignIfTwo_FirstTwice ==
    /\ IF Len(uniqueSpeakers) = 2
       THEN /\ meName' = uniqueSpeakers[1]
            /\ partnerName' = uniqueSpeakers[1]
       ELSE UNCHANGED <<meName, partnerName>>
    /\ UNCHANGED <<raw, useMock, loading, messages, result, error, inflight>>

autoAssignIfTwo ==
    /\ IF Len(uniqueSpeakers) = 2
       THEN /\ meName' = uniqueSpeakers[1]
            /\ partnerName' = uniqueSpeakers[2]
       ELSE UNCHANGED <<meName, partnerName>>
    /\ UNCHANGED <<raw, useMock, loading, messages, result, error, inflight>>

\* the Auto-assign button is rendered for tabular input and disabled unless
\* there are two names
AutoAssignClick ==
    /\ isCsvInput
    /\ Len(uniqueSpeakers) = 2
    /\ autoAssignIfTwo

\* --------------------------------------------------------------------------
\* Parse
\* --------------------------------------------------------------------------
\* onParse showing nothing when the binder fails
onParse_DiscardsParsed ==
    LET parsed == parseChatAny(raw)
        bound  == applySpeakerMapping(parsed)
    IN  /\ result' = NoResult
        /\ IF bound.ok
           THEN /\ messages' = bound.msgs
                /\ error' = IF Len(bound.msgs) < 2 THEN MsgTooFewParse ELSE ""
           ELSE /\ messages' = <<>>
                /\ error' = bound.err
        /\ UNCHANGED <<raw, useMock, loading, meName, partnerName, inflight>>

onParse ==
    LET parsed == parseChatAny(raw)
        bound  == applySpeakerMapping(parsed)
    IN  /\ result' = NoResult
        /\ IF bound.ok
           THEN /\ messages' = bound.msgs
                /\ error' = IF Len(bound.msgs) < 2 THEN MsgTooFewParse ELSE ""
           ELSE /\ messages' = parsed
                /\ error' = bound.err
        /\ UNCHANGED <<raw, useMock, loading, meName, partnerName, inflight>>

\* --------------------------------------------------------------------------
\* Analyze: the handler up to its first await, then the settling of what it
\* waits for.  A request in flight is a record of inflight.
\* --------------------------------------------------------------------------
Pending(op, id, msgs) == [op |-> op, id |-> id, messages |-> msgs]

\* onAnalyze showing the unbound messages when the binder fails, as onParse
onAnalyze_ShowsParsed ==
    LET parsed == parseChatAny(raw)
        bound  == applySpeakerMapping(parsed)
    IN  /\ ~loading
        /\ IF ~bound.ok
           THEN /\ error' = bound.err
                /\ messages' = parsed
                /\ UNCHANGED <<loading, result, inflight>>
           ELSE IF Len(bound.msgs) < 2
           THEN /\ messages' = bound.msgs
                /\ error' = MsgTooFewAnalyze
                /\ UNCHANGED <<loading, result, inflight>>
           ELSE /\ messages' = bound.msgs
                /\ error' = ""
                /\ loading' = TRUE
                /\ result' = NoResult
                /\ inflight' = Append(inflight,
                                      IF useMock THEN Pending("setTimeout", "", <<>>)
                                      ELSE Pending("postAnalyze", "", bound.msgs))
        /\ UNCHANGED <<raw, useMock, meName, partnerName>>

onAnalyze ==
    LET parsed == parseChatAny(raw)
        bound  == applySpeakerMapping(parsed)
    IN  /\ ~loading
        /\ IF ~bound.ok
           THEN /\ error' = bound.err
                /\ UNCHANGED <<messages, loading, result, inflight>>
           ELSE IF Len(bound.msgs) < 2
           THEN /\ messages' = bound.msgs
                /\ error' = MsgTooFewAnalyze
                /\ UNCHANGED <<loading, result, inflight>>
           ELSE /\ messages' = bound.msgs
                /\ error' = ""
                /\ loading' = TRUE
                /\ result' = NoResult
                /\ inflight' = Append(inflight,
                                      IF useMock THEN Pending("setTimeout", "", <<>>)
                                      ELSE Pending("postAnalyze", "", bound.msgs))
        /\ UNCHANGED <<raw, useMock, meName, partnerName>>

\* the 650 ms timer of mock mode fires
MockTimerFires(k) ==
    /\ k \in 1..Len(inflight)
    /\ inflight[k].op = "setTimeout"
    /\ result' = MOCK_RESULT
    /\ loading' = FALSE
    /\ inflight' = RemoveAt(inflight, k)
    /\ UNCHANGED <<raw, useMock, messages, meName, partnerName, error>>

PostAnalyzeResolves(k) ==
    /\ k \in 1..Len(inflight)
    /\ inflight[k].op = "postAnalyze"
    /\ result' = Analysis(inflight[k].messages)
    /\ loading' = FALSE
    /\ inflight' = RemoveAt(inflight, k)
    /\ UNCHANGED <<raw, useMock, messages, meName, partnerName, error>>

\* PostAnalyzeRejects without the finally block
PostAnalyzeRejects_KeepsLoading(k) ==
    /\ k \in 1..Len(inflight)
    /\ inflight[k].op = "postAnalyze"
    /\ error' = MsgRequestFailed
    /\ inflight' = RemoveAt(inflight, k)
    /\ UNCHANGED <<raw, useMock, loading, messages, meName, partnerName, result>>

PostAnalyzeRejects(k) ==
    /\ k \in 1..Len(inflight)
    /\ inflight[k].op = "postAnalyze"
    /\ error' = MsgRequestFailed
    /\ loading' = FALSE
    /\ inflight' = RemoveAt(inflight, k)
    /\ UNCHANGED <<raw, useMock, messages, meName, partnerName, result>>

\* the Analyze button of a character card
onAnalyzeWithCharacter(characterId) ==
    LET parsed == parseChatAny(raw)
        bound  == applySpeakerMapping(parsed)
    IN  /\ IF ~bound.ok
           THEN /\ error' = bound.err
                /\ UNCHANGED <<messages, loading, result, inflight>>
           ELSE IF Len(bound.msgs) < 1
           THEN /\ messages' = bound.msgs
                /\ error' = MsgNoNewMessages
                /\ UNCHANGED <<loading, result, inflight>>
           ELSE /\ messages' = bound.msgs
                /\ result' = NoResult
                /\ IF useMock
                   THEN /\ error' = MsgMockCharacter
                        /\ loading' = FALSE
                        /\ UNCHANGED inflight
                   ELSE /\ error' = ""
                        /\ loading' = TRUE
                        /\ inflight' = Append(inflight,
                                              Pending("analyzeWithCharacter", characterId,
                                                      bound.msgs))
        /\ UNCHANGED <<raw, useMock, meName, partnerName>>

AnalyzeWithCharacterResolves(k) ==
    /\ k \in 1..Len(inflight)
    /\ inflight[k].op = "analyzeWithCharacter"
    \* data.standard_analysis
    /\ result' = Analysis(inflight[k].messages)
    /\ loading' = FALSE
    /\ inflight' = RemoveAt(inflight, k)
    /\ UNCHANGED <<raw, useMock, messages, meName, partnerName, error>>

AnalyzeWithCharacterRejects(k) ==
    /\ k \in 1..Len(inflight)
    /\ inflight[k].op = "analyzeWithCharacter"
    /\ error' = MsgRequestFailed
    /\ loading' = FALSE
    /\ inflight' = RemoveAt(inflight, k)
    /\ UNCHANGED <<raw, useMock, messages, meName, partnerName, result>>

\* --------------------------------------------------------------------------
\* Load a character
\* --------------------------------------------------------------------------
\* `${m.speaker === "me" ? "Me" : "Partner"}: ${m.text}` joined with "\n"
ChatLine(m) ==
    (IF m.speaker = ME THEN <<"M", "e">> ELSE <<"P", "a", "r", "t", "n", "e", "r">>)
        \o <<COLON, SP>> \o m.text

ChatText(msgs) == JoinLines([i \in 1..Len(msgs) |-> ChatLine(msgs[i])])

onLoadCharacter(characterId) ==
    /\ loading' = TRUE
    /\ inflight' = Append(inflight, Pending("getCharacter", characterId, <<>>))
    /\ UNCHANGED <<raw, useMock, messages, meName, partnerName, result, error>>

GetCharacterResolves(k) ==
    /\ k \in 1..Len(inflight)
    /\ inflight[k].op = "getCharacter"
    /\ LET character == StoredMessages(inflight[k].id)
       IN  /\ raw' = ChatText(character)
           /\ messages' = character
    /\ result' = NoResult
    /\ error' = ""
    /\ meName' = <<>>
    /\ partnerName' = <<>>
    /\ loading' = FALSE
    /\ inflight' = RemoveAt(inflight, k)
    /\ UNCHANGED <<useMock>>

GetCharacterRejects(k) ==
    /\ k \in 1..Len(inflight)
    /\ inflight[k].op = "getCharacter"
    /\ error' = MsgRequestFailed
    /\ loading' = FALSE
    /\ inflight' = RemoveAt(inflight, k)
    /\ UNCHANGED <<raw, useMock, messages, meName, partnerName, result>>

\* --------------------------------------------------------------------------
\* Save a character.  The dialog with the name field is opened by the Save
\* Character button, which is rendered while messages holds 2 or more.
\* --------------------------------------------------------------------------
MsgNameNeeded == "enter a character name"
MsgTooFewSave == "too few messages to save, try again after Parse"

CharacterNames == {<<>>, <<SP>>, <<"B", "o", "b">>}

\* saveCharacter(characterName, messages, selectedEmoji) in flight
SavePending(name, msgs) ==
    [op |-> "saveCharacter", id |-> "", name |-> name, messages |-> msgs]

onSaveCharacter(characterName) ==
    /\ IF Trim(characterName) = <<>>
       THEN /\ error' = MsgNameNeeded
            /\ UNCHANGED inflight
       ELSE IF Len(messages) < 2
       THEN /\ error' = MsgTooFewSave
            /\ UNCHANGED inflight
       ELSE /\ inflight' = Append(inflight, SavePending(characterName, messages))
            /\ UNCHANGED error
    /\ UNCHANGED <<raw, useMock, loading, messages, meName, partnerName, result>>

\* the Save button of the dialog
SaveClick(characterName) ==
    /\ Len(messages) >= 2
    /\ onSaveCharacter(characterName)

\* saveCharacter resolved: the handler goes on to await loadCharacters()
SaveCharacterResolves(k) ==
    /\ k \in 1..Len(inflight)
    /\ inflight[k].op = "saveCharacter"
    /\ inflight' = [inflight EXCEPT ![k].op = "loadCharacters"]
    /\ UNCHANGED <<raw, useMock, loading, messages, meName, partnerName, result, error>>

SaveCharacterRejects(k) ==
    /\ k \in 1..Len(inflight)
    /\ inflight[k].op = "saveCharacter"
    /\ error' = MsgRequestFailed
    /\ inflight' = RemoveAt(inflight, k)
    /\ UNCHANGED <<raw, useMock, loading, messages, meName, partnerName, result>>

\* loadCharacters() catches what getCharacters throws, so it always resolves
LoadCharactersSettles(k) ==
    /\ k \in 1..Len(inflight)
    /\ inflight[k].op = "loadCharacters"
    /\ error' = ""
    /\ inflight' = RemoveAt(inflight, k)
    /\ UNCHANGED <<raw, useMock, loading, messages, meName, partnerName, result>>

\* --------------------------------------------------------------------------
\* The dashboard
\* --------------------------------------------------------------------------
\* a handler that awaits something starts only below the bound on inflight
Room == Len(inflight) < MaxInflight

Next ==
    \/ (\E text \in DashRaws : SetRaw(text)) /\ UNCHANGED session
    \/ (\E text \in DashRaws : onUploadFile(text)) /\ UNCHANGED session
    \/ ClearClick /\ UNCHANGED session
    \/ (\E b \in BOOLEAN : SetUseMock(b)) /\ UNCHANGED session
    \/ (\E n \in BindNames : SetMeName(n)) /\ UNCHANGED session
    \/ (\E n \in BindNames : SetPartnerName(n)) /\ UNCHANGED session
    \/ AutoAssignClick /\ UNCHANGED session
    \/ onParse /\ UNCHANGED session
    \/ Room /\ onAnalyze /\ UNCHANGED session
    \/ Room /\ (\E id \in CharacterIds : onAnalyzeWithCharacter(id)) /\ UNCHANGED session
    \/ Room /\ (\E id \in CharacterIds : onLoadCharacter(id)) /\ UNCHANGED session
    \/ (\E k \in 1..MaxInflight : MockTimerFires(k)) /\ UNCHANGED session
    \/ (\E k \in 1..MaxInflight : PostAnalyzeResolves(k)) /\ UNCHANGED session
    \/ (\E k \in 1..MaxInflight : PostAnalyzeRejects(k)) /\ UNCHANGED session
    \/ (\E k \in 1..MaxInflight : AnalyzeWithCharacterResolves(k)) /\ UNCHANGED session
    \/ (\E k \in 1..MaxInflight : AnalyzeWithCharacterRejects(k)) /\ UNCHANGED session
    \/ (\E k \in 1..MaxInflight : GetCharacterResolves(k)) /\ UNCHANGED session
    \/ (\E k \in 1..MaxInflight : GetCharacterRejects(k)) /\ UNCHANGED session
    \/ Room /\ (\E name \in CharacterNames : SaveClick(name)) /\ UNCHANGED session
    \/ (\E k \in 1..MaxInflight : SaveCharacterResolves(k)) /\ UNCHANGED session
    \/ (\E k \in 1..MaxInflight : SaveCharacterRejects(k)) /\ UNCHANGED session
    \/ (\E k \in 1..MaxInflight : LoadCharactersSettles(k)) /\ UNCHANGED session

Spec == Init /\ [][Next]_vars


\* --------------------------------------------------------------------------
\* The parsers and the binder on every transcript of ParseRaws: the text and
\* the binding are drawn at the start, Parse is pressed
\* --------------------------------------------------------------------------
ParseBindings ==
    {<<NameA, NameB>>, <<NameB, NameA>>, <<NameA, NameA>>, <<NameA, <<>>>>,
     <<<<>>, NameB>>, <<<<>>, <<>>>>}

InitParse ==
    /\ raw \in ParseRaws
    /\ \E b \in ParseBindings : meName = b[1] /\ partnerName = b[2]
    /\ useMock = TRUE
    /\ loading = FALSE
    /\ messages = <<>>
    /\ result = NoResult
    /\ error = ""
    /\ inflight = <<>>
    /\ SignedIn

NextParse == onParse /\ UNCHANGED session

SpecParse == InitParse /\ [][NextParse]_vars


\* --------------------------------------------------------------------------
\* Analyze on every transcript of ParseRaws, in API mode
\* --------------------------------------------------------------------------
InitAnalyze ==
    /\ raw \in ParseRaws
    /\ \E b \in ParseBindings : meName = b[1] /\ partnerName = b[2]
    /\ useMock = FALSE
    /\ loading = FALSE
    /\ messages = <<>>
    /\ result = NoResult
    /\ error = ""
    /\ inflight = <<>>
    /\ SignedIn

NextAnalyze ==
    \/ Room /\ onAnalyze /\ UNCHANGED session
    \/ Room /\ (\E id \in CharacterIds : onAnalyzeWithCharacter(id)) /\ UNCHANGED session

SpecAnalyze == InitAnalyze /\ [][NextAnalyze]_vars

\* --------------------------------------------------------------------------
\* Overlapping requests: the dashboard on two texts, with up to MaxRace
\* handlers waiting at once
\* --------------------------------------------------------------------------
MaxRace == 2

RaceRaws == {InitialRaw, <<>>}

RoomRace == Len(inflight) < MaxRace

\* a request in flight settles, one way or the other
Settles(k) ==
    \/ MockTimerFires(k)
    \/ PostAnalyzeResolves(k)
    \/ PostAnalyzeRejects(k)
    \/ AnalyzeWithCharacterResolves(k)
    \/ AnalyzeWithCharacterRejects(k)
    \/ GetCharacterResolves(k)
    \/ GetCharacterRejects(k)

NextRace ==
    \/ (\E text \in RaceRaws : SetRaw(text)) /\ UNCHANGED session
    \/ (\E b \in BOOLEAN : SetUseMock(b)) /\ UNCHANGED session
    \/ onParse /\ UNCHANGED session
    \/ RoomRace /\ onAnalyze /\ UNCHANGED session
    \/ RoomRace /\ (\E id \in CharacterIds : onAnalyzeWithCharacter(id)) /\ UNCHANGED session
    \/ RoomRace /\ (\E id \in CharacterIds : onLoadCharacter(id)) /\ UNCHANGED session
    \/ (\E k \in 1..MaxRace : MockTimerFires(k)) /\ UNCHANGED session
    \/ (\E k \in 1..MaxRace : PostAnalyzeResolves(k)) /\ UNCHANGED session
    \/ (\E k \in 1..MaxRace : PostAnalyzeRejects(k)) /\ UNCHANGED session
    \/ (\E k \in 1..MaxRace : AnalyzeWithCharacterResolves(k)) /\ UNCHANGED session
    \/ (\E k \in 1..MaxRace : AnalyzeWithCharacterRejects(k)) /\ UNCHANGED session
    \/ (\E k \in 1..MaxRace : GetCharacterResolves(k)) /\ UNCHANGED session
    \/ (\E k \in 1..MaxRace : GetCharacterRejects(k)) /\ UNCHANGED session

SpecRace == Init /\ [][NextRace]_vars

\* every request in flight settles in the end: a timer fires, a fetch
\* resolves or rejects
SpecRaceFair ==
    SpecRace /\ \A k \in 1..MaxRace : WF_vars(Settles(k) /\ UNCHANGED session)

\* --------------------------------------------------------------------------
\* Load a character, then Analyze, in API mode
\* --------------------------------------------------------------------------
InitLoad ==
    /\ raw \in RaceRaws
    /\ useMock = FALSE
    /\ loading = FALSE
    /\ messages = <<>>
    /\ meName = <<>>
    /\ partnerName = <<>>
    /\ result = NoResult
    /\ error = ""
    /\ inflight = <<>>
    /\ SignedIn

NextLoad ==
    \/ Room /\ (\E id \in LoadIds : onLoadCharacter(id)) /\ UNCHANGED session
    \/ (\E k \in 1..MaxInflight : GetCharacterResolves(k)) /\ UNCHANGED session
    \/ (\E k \in 1..MaxInflight : GetCharacterRejects(k)) /\ UNCHANGED session
    \/ Room /\ onAnalyze /\ UNCHANGED session
    \/ (\E k \in 1..MaxInflight : PostAnalyzeResolves(k)) /\ UNCHANGED session
    \/ (\E k \in 1..MaxInflight : PostAnalyzeRejects(k)) /\ UNCHANGED session

SpecLoad == InitLoad /\ [][NextLoad]_vars

\* --------------------------------------------------------------------------
\* Auto-assign on every transcript of ParseRaws, from every binding of
\* ParseBindings, then Parse
\* --------------------------------------------------------------------------
NextAssign ==
    \/ autoAssignIfTwo /\ UNCHANGED session
    \/ onParse /\ UNCHANGED session

SpecAssign == InitParse /\ [][NextAssign]_vars

\* --------------------------------------------------------------------------
\* The backend client (utils/api.js). Its six functions have one body: read
\* auth.currentUser, await its ID token, await fetch with the token as
\* bearer, throw on a response that is not ok, return the parsed body.
\* calls holds one record per call that was made and not yet handed back.
\* --------------------------------------------------------------------------
ApiFunctions ==
    {"postAnalyze", "saveCharacter", "getCharacters", "getCharacter",
     "deleteCharacter", "analyzeWithCharacter"}

MsgNotAuthenticated == "Not authenticated"

\* the ID token of a user, and no token
IdToken(u) == <<"idToken", u>>
NoToken == <<>>

\* response statuses, and res.ok
Statuses == {200, 401, 500}
NoStatus == 0
Ok(status) == status >= 200 /\ status <= 299

\* response bodies read by res.text()
Bodies == {"", "quota exceeded"}

MaxCalls == 2

\* a call at its first await; request says whether fetch was called
NewCall(fn, u) ==
    [fn |-> fn, caller |-> u, stage |-> "getIdToken", request |-> FALSE,
     bearer |-> NoToken, status |-> NoStatus, thrown |-> ""]

Throws(c, message) == [c EXCEPT !.stage = "thrown", !.thrown = message]

\* the identity provider signs a user in (signInWithGoogle) or out (logout)
SignInOrOut(u) ==
    /\ u # currentUser
    /\ currentUser' = u
    /\ UNCHANGED <<subscribed, user, initializing, authCallbacks, profiles, calls>>
    /\ UNCHANGED dashboard

\* const user = auth.currentUser; if (!user) throw ...; await user.getIdToken()
ApiCall(fn) ==
    /\ Len(calls) < MaxCalls
    /\ calls' = Append(calls,
                       IF currentUser = NoUser
                       THEN Throws(NewCall(fn, NoUser), MsgNotAuthenticated)
                       ELSE NewCall(fn, currentUser))
    /\ UNCHANGED <<currentUser, subscribed, user, initializing, authCallbacks, profiles>>
    /\ UNCHANGED dashboard

\* the calls change at position k, nothing else does
CallBecomes(k, c) ==
    /\ calls' = [calls EXCEPT ![k] = c]
    /\ UNCHANGED <<currentUser, subscribed, user, initializing, authCallbacks, profiles>>
    /\ UNCHANGED dashboard

\* getIdToken resolves: fetch is called with Authorization: Bearer token
GetIdTokenResolves(k) ==
    /\ k \in 1..Len(calls)
    /\ calls[k].stage = "getIdToken"
    /\ CallBecomes(k, [calls[k] EXCEPT !.stage = "fetch", !.request = TRUE,
                                       !.bearer = IdToken(calls[k].caller)])

GetIdTokenRejects(k) ==
    /\ k \in 1..Len(calls)
    /\ calls[k].stage = "getIdToken"
    /\ CallBecomes(k, Throws(calls[k], "token unavailable"))

\* a response that is returned whatever its status
FetchResponds_IgnoresStatus(k, status) ==
    /\ k \in 1..Len(calls)
    /\ calls[k].stage = "fetch"
    /\ CallBecomes(k, [calls[k] EXCEPT !.status = status, !.stage = "json"])

\* fetch resolves with a response: if (!res.ok) await res.text()
\* else await res.json()
FetchResponds(k, status) ==
    /\ k \in 1..Len(calls)
    /\ calls[k].stage = "fetch"
    /\ CallBecomes(k, [calls[k] EXCEPT !.status = status,
                                       !.stage = IF Ok(status) THEN "json" ELSE "text"])

\* fetch rejects (no network)
FetchRejects(k) ==
    /\ k \in 1..Len(calls)
    /\ calls[k].stage = "fetch"
    /\ CallBecomes(k, Throws(calls[k], "Failed to fetch"))

\* throw new Error(t || `Request failed: ${res.status}`)
TextResolves(k, t) ==
    /\ k \in 1..Len(calls)
    /\ calls[k].stage = "text"
    /\ CallBecomes(k, Throws(calls[k], IF t # "" THEN t ELSE MsgRequestFailed))

TextRejects(k) ==
    /\ k \in 1..Len(calls)
    /\ calls[k].stage = "text"
    /\ CallBecomes(k, Throws(calls[k], "body unreadable"))

\* return await res.json()
JsonResolves(k) ==
    /\ k \in 1..Len(calls)
    /\ calls[k].stage = "json"
    /\ CallBecomes(k, [calls[k] EXCEPT !.stage = "returned"])

JsonRejects(k) ==
    /\ k \in 1..Len(calls)
    /\ calls[k].stage = "json"
    /\ CallBecomes(k, Throws(calls[k], "invalid json"))

\* the caller takes the value or the error of a call that is over
CallerReceives(k) ==
    /\ k \in 1..Len(calls)
    /\ calls[k].stage \in {"returned", "thrown"}
    /\ calls' = RemoveAt(calls, k)
    /\ UNCHANGED <<currentUser, subscribed, user, initializing, authCallbacks, profiles>>
    /\ UNCHANGED dashboard

InitApi ==
    /\ raw = InitialRaw
    /\ useMock = TRUE
    /\ loading = FALSE
    /\ messages = <<>>
    /\ meName = <<>>
    /\ partnerName = <<>>
    /\ result = NoResult
    /\ error = ""
    /\ inflight = <<>>
    /\ SignedIn

NextApi ==
    \/ \E u \in Users \cup {NoUser} : SignInOrOut(u)
    \/ \E fn \in ApiFunctions : ApiCall(fn)
    \/ \E k \in 1..MaxCalls : GetIdTokenResolves(k)
    \/ \E k \in 1..MaxCalls : GetIdTokenRejects(k)
    \/ \E k \in 1..MaxCalls, status \in Statuses : FetchResponds(k, status)
    \/ \E k \in 1..MaxCalls : FetchRejects(k)
    \/ \E k \in 1..MaxCalls, t \in Bodies : TextResolves(k, t)
    \/ \E k \in 1..MaxCalls : TextRejects(k)
    \/ \E k \in 1..MaxCalls : JsonResolves(k)
    \/ \E k \in 1..MaxCalls : JsonRejects(k)
    \/ \E k \in 1..MaxCalls : CallerReceives(k)

SpecApi == InitApi /\ [][NextApi]_vars

\* --------------------------------------------------------------------------
\* AuthProvider: the effect awaits initAuthPersistence and then registers
\* the observer; each run of the observer is a callback that sets user,
\* awaits upsertUserProfile for a signed-in user, and then clears
\* initializing. authCallbacks holds the runs that are waiting.
\* --------------------------------------------------------------------------
MaxCallbacks == 2

\* what App renders
Screen ==
    IF initializing THEN "Loading"
    ELSE IF user = NoUser THEN "Login" ELSE "Dashboard"

\* await initAuthPersistence() resolves: onAuthStateChanged registers the
\* observer
InitAuthPersistenceResolves ==
    /\ subscribed = "pending"
    /\ subscribed' = "yes"
    /\ UNCHANGED <<currentUser, user, initializing, authCallbacks, profiles, calls>>
    /\ UNCHANGED dashboard

\* await initAuthPersistence() rejects: the effect's async function ends
\* there and no observer is registered
InitAuthPersistenceRejects ==
    /\ subscribed = "pending"
    /\ subscribed' = "failed"
    /\ UNCHANGED <<currentUser, user, initializing, authCallbacks, profiles, calls>>
    /\ UNCHANGED dashboard

\* the identity provider calls the observer with its current user:
\* setUser(u); if (u) await upsertUserProfile(u), which starts with getDoc;
\* else setInitializing(false)
AuthStateChanged ==
    /\ subscribed = "yes"
    /\ Len(authCallbacks) < MaxCallbacks
    /\ user' = currentUser
    /\ IF currentUser = NoUser
       THEN initializing' = FALSE /\ UNCHANGED authCallbacks
       ELSE /\ authCallbacks' = Append(authCallbacks, [u |-> currentUser, pc |-> "getDoc"])
            /\ UNCHANGED initializing
    /\ UNCHANGED <<currentUser, subscribed, profiles, calls>>
    /\ UNCHANGED dashboard

\* getDoc resolves: setDoc when the document does not exist, else updateDoc
GetDocResolves(k) ==
    /\ k \in 1..Len(authCallbacks)
    /\ authCallbacks[k].pc = "getDoc"
    /\ authCallbacks' =
           [authCallbacks EXCEPT ![k].pc =
                IF authCallbacks[k].u \in profiles THEN "updateDoc" ELSE "setDoc"]
    /\ UNCHANGED <<currentUser, subscribed, user, initializing, profiles, calls>>
    /\ UNCHANGED dashboard

\* getDoc, setDoc or updateDoc rejects: upsertUserProfile throws, the
\* callback ends at its await and setInitializing(false) is not reached
UpsertRejects(k) ==
    /\ k \in 1..Len(authCallbacks)
    /\ authCallbacks' = RemoveAt(authCallbacks, k)
    /\ UNCHANGED <<currentUser, subscribed, user, initializing, profiles, calls>>
    /\ UNCHANGED dashboard

\* setDoc or updateDoc resolves: the document exists, upsertUserProfile
\* returns and the callback calls setInitializing(false)
UpsertResolves(k) ==
    /\ k \in 1..Len(authCallbacks)
    /\ authCallbacks[k].pc \in {"setDoc", "updateDoc"}
    /\ profiles' = profiles \cup {authCallbacks[k].u}
    /\ authCallbacks' = RemoveAt(authCallbacks, k)
    /\ initializing' = FALSE
    /\ UNCHANGED <<currentUser, subscribed, user, calls>>
    /\ UNCHANGED dashboard

\* the page loads: nobody or a remembered user, with or without a document
InitAuth ==
    /\ raw = InitialRaw
    /\ useMock = TRUE
    /\ loading = FALSE
    /\ messages = <<>>
    /\ meName = <<>>
    /\ partnerName = <<>>
    /\ result = NoResult
    /\ error = ""
    /\ inflight = <<>>
    /\ currentUser \in Users \cup {NoUser}
    /\ subscribed = "pending"
    /\ user = NoUser
    /\ initializing = TRUE
    /\ authCallbacks = <<>>
    /\ profiles \in SUBSET Users
    /\ calls = <<>>

\* a waiting callback takes its next step
CallbackSteps(k) ==
    \/ GetDocResolves(k)
    \/ UpsertResolves(k)
    \/ UpsertRejects(k)

NextAuth ==
    \/ InitAuthPersistenceResolves
    \/ InitAuthPersistenceRejects
    \/ \E u \in Users \cup {NoUser} : SignInOrOut(u)
    \/ AuthStateChanged
    \/ \E k \in 1..MaxCallbacks : GetDocResolves(k)
    \/ \E k \in 1..MaxCallbacks : UpsertResolves(k)
    \/ \E k \in 1..MaxCallbacks : UpsertRejects(k)

SpecAuth == InitAuth /\ [][NextAuth]_vars

\* every awaited Firestore call settles in the end, one way or the other
SpecAuthFair ==
    SpecAuth /\ \A k \in 1..MaxCallbacks : WF_vars(CallbackSteps(k))

\* --------------------------------------------------------------------------
\* Properties
\* --------------------------------------------------------------------------
\* Parse has been pressed (in SpecParse, where nothing else happens)
Parsed == messages # <<>> \/ error # ""

Canonical(speaker) == speaker = ME \/ speaker = PARTNER

NameAlice      == <<"A", "l", "i", "c", "e">>

\* the rows of a tabular text that have at least three fields
LongRows(text) == SelectSeq(PapaParse(text), LAMBDA row : Len(row) >= 3)

\* C1 as stated: for tabular input every row with k >= 3 fields yields
\* exactly one message, whose text is fields 2..k-1 rejoined with "," and
\* whose speaker is field 1.
C1_EveryLongRowOneMessage ==
    looksLikeCsv(raw) =>
        LET rows == LongRows(raw)
            out  == parseKakaoCsvRaw(raw)
        IN  /\ Len(out) = Len(rows)
            /\ \A i \in 1..Len(rows) :
                 /\ out[i].text = RowText(rows[i])
                 /\ out[i].speaker = rows[i][2]

\* C1 amended: for tabular input the messages are, in order, one for each
\* row with k >= 3 fields whose quote-stripped text is not system-like; its
\* text is fields 2..k-1 rejoined with "," and quote-stripped (never field 2
\* alone), its speaker is field 1 quote-stripped; a comma inside a
\* double-quoted field does not separate fields, so the example row gives
\* exactly one message with text 'hello, world' and speaker 'Alice'.
C1_RejoinedText ==
    looksLikeCsv(raw) =>
        LET rows == SelectSeq(LongRows(raw),
                              LAMBDA row : ~isSystemLikeText(stripQuotes(RowText(row))))
            out  == parseKakaoCsvRaw(raw)
        IN  /\ Len(out) = Len(rows)
            /\ \A i \in 1..Len(rows) :
                 /\ out[i].text = stripQuotes(RowText(rows[i]))
                 /\ out[i].speaker = stripQuotes(rows[i][2])
            /\ raw = RowAlice =>
                 /\ Len(out) = 1
                 /\ out[1].text = TextHelloWorld
                 /\ out[1].speaker = NameAlice

\* the example row has been parsed into its one message
C1_Witness ==
    /\ raw = RowAlice
    /\ Len(messages) = 1
    /\ messages[1].text = TextHelloWorld
    /\ messages[1].speaker = NameAlice

IsLabeled(trimmed) == MatchesLabel(trimmed, LabelMe) \/ MatchesLabel(trimmed, LabelPartner)

\* the first line carries a label and the others are non-blank without one
LabeledThenPlain(lines) ==
    /\ Len(lines) >= 1
    /\ IsLabeled(Trim(lines[1]))
    /\ \A k \in 2..Len(lines) : Trim(lines[k]) # <<>> /\ ~IsLabeled(Trim(lines[k]))

FirstRole(lines) == IF MatchesLabel(Trim(lines[1]), LabelMe) THEN ME ELSE PARTNER

\* the label remainder and the trimmed lines after it, joined by "\n"
JoinedTurn(lines) ==
    JoinLines([k \in 1..Len(lines) |->
                 IF k = 1
                 THEN LabelRemainder(Trim(lines[1]),
                                     IF MatchesLabel(Trim(lines[1]), LabelMe)
                                     THEN LabelMe ELSE LabelPartner)
                 ELSE Trim(lines[k])])


\* every non-blank line without a label that meets an open turn is appended
\* to it as "\n" and the trimmed line
ContinuationAppends(lines) ==
    \A k \in 1..Len(lines) :
        LET before  == SimpleAfter(lines, k - 1)
            trimmed == Trim(lines[k])
        IN  (trimmed # <<>> /\ ~IsLabeled(trimmed) /\ before.cur # <<>>) =>
                /\ SimpleAfter(lines, k).msgs = before.msgs
                /\ SimpleAfter(lines, k).cur =
                       <<[before.cur[1] EXCEPT !.text = @ \o <<NL>> \o trimmed]>>

\* C2 as stated: a labeled line followed by n unlabeled non-blank lines
\* yields exactly one message, whose text is the label remainder and the n
\* trimmed lines joined by "\n".
C2_OneMessageJoined ==
    LET lines == SplitLines(raw)
    IN  LabeledThenPlain(lines) =>
            parseSimpleChat(raw) = <<Msg(MId(1), FirstRole(lines), Null, JoinedTurn(lines))>>

\* C2 amended: in the labeled-turn parser every non-blank line without a
\* label that meets an open turn is appended to it as "\n" and the trimmed
\* line; a labeled line followed by n unlabeled non-blank lines yields the
\* one message whose text is the label remainder and the n trimmed lines
\* joined by "\n" and then trimmed (an empty remainder leaves no leading
\* newline), and no message when that text is empty; 'Me: line1', 'more',
\* 'Partner: reply' gives two messages, the first 'line1\nmore' by me.
C2_ContinuationLines ==
    LET lines == SplitLines(raw)
        out   == parseSimpleChat(raw)
        text  == Trim(JoinedTurn(lines))
    IN  /\ ContinuationAppends(lines)
        /\ LabeledThenPlain(lines) =>
             out = IF text = <<>> THEN <<>>
                   ELSE <<Msg(MId(1), FirstRole(lines), Null, text)>>
        /\ raw = JoinLines(<<LineMe, LineMore, LinePartner>>) =>
             out = <<Msg(MId(1), ME, Null, TextLine1More), Msg(MId(2), PARTNER, Null, TextReply)>>

\* the example has been parsed into its two messages
C2_Witness ==
    /\ raw = JoinLines(<<LineMe, LineMore, LinePartner>>)
    /\ Len(messages) = 2
    /\ messages[1].text = TextLine1More
    /\ messages[1].speaker = ME

\* C3: the ids of a preview are m1, m2, ..., mN in emission order, without
\* gap or repetition, whatever rows were filtered out and whatever labeled
\* turns were opened and then discarded as empty.
C3_SequentialIds ==
    \A i \in 1..Len(parsedPreview) : parsedPreview[i].id = MId(i)

\* a system row and a short row come before the one row that is kept
C3_Witness ==
    /\ raw = JoinLines(<<RowPhoto, RowShort, RowA>>)
    /\ Len(messages) = 1
    /\ messages[1].id = MId(1)

\* C4: every message of either parser has a non-empty text without leading
\* or trailing white space.
C4_TextTrimmed ==
    \A i \in 1..Len(parsedPreview) :
        /\ parsedPreview[i].text # <<>>
        /\ Trim(parsedPreview[i].text) = parsedPreview[i].text

\* C5: every message list handed to postAnalyze or analyzeWithCharacter
\* has only the speakers 'me' and 'partner', whatever the text and whatever
\* binding passed validation.
C5_OnlyRolesSent ==
    \A k \in 1..Len(inflight) :
        inflight[k].op \in {"postAnalyze", "analyzeWithCharacter"} =>
            \A i \in 1..Len(inflight[k].messages) :
                Canonical(inflight[k].messages[i].speaker)

\* a tabular text was bound and sent
C5_Witness ==
    /\ isCsvInput
    /\ Len(inflight) = 1
    /\ inflight[1].op = "postAnalyze"
    /\ Len(inflight[1].messages) >= 2
    /\ \E i \in 1..Len(parsedPreview) : ~Canonical(parsedPreview[i].speaker)

ValidBinding == meName # <<>> /\ partnerName # <<>> /\ meName # partnerName

BoundTo(name) == Trim(name) = meName \/ Trim(name) = partnerName

\* C6: with a valid binding and tabular messages the binder keeps exactly
\* the messages whose trimmed speaker is meName or partnerName, in order,
\* with text and timestamp as they were, drops the others without raising,
\* and numbers the survivors m1..mK.
C6_KeepsBoundRenumbered ==
    (isCsvInput /\ ValidBinding) =>
        LET kept  == SelectSeq(parsedPreview, LAMBDA m : BoundTo(m.speaker))
            bound == applySpeakerMapping(parsedPreview)
        IN  /\ bound.ok
            /\ Len(bound.msgs) = Len(kept)
            /\ \A i \in 1..Len(kept) :
                 /\ bound.msgs[i].id = MId(i)
                 /\ bound.msgs[i].text = kept[i].text
                 /\ bound.msgs[i].ts = kept[i].ts
                 /\ bound.msgs[i].speaker =
                        IF Trim(kept[i].speaker) = meName THEN ME ELSE PARTNER
            /\ Parsed => messages = bound.msgs

\* Parse has bound a text with a third sender, whose message came first
C6_Witness ==
    /\ isCsvInput /\ ValidBinding
    /\ Len(parsedPreview) = 3
    /\ ~BoundTo(parsedPreview[1].speaker)
    /\ Len(messages) = 2
    /\ messages[1].id = MId(1) /\ messages[1].speaker = ME
    /\ messages[2].id = MId(2) /\ messages[2].speaker = PARTNER

\* C7: for tabular input a binding of two identical non-empty names raises
\* the 'ambiguous' error and maps nothing.
C7_SameNamesAmbiguous ==
    (isCsvInput /\ meName # <<>> /\ meName = partnerName) =>
        LET bound == applySpeakerMapping(parsedPreview)
        IN  /\ ~bound.ok
            /\ bound.err = MsgAmbiguous
            /\ bound.msgs = <<>>
            /\ Parsed => messages = parsedPreview /\ error = MsgAmbiguous

\* Parse met two identical names on a text with messages of that name
C7_Witness ==
    /\ isCsvInput
    /\ meName = NameA /\ partnerName = NameA
    /\ error = MsgAmbiguous
    /\ \E i \in 1..Len(messages) : messages[i].speaker = NameA

\* C8: for tabular input a binding with meName or partnerName empty raises
\* the 'incomplete' error, which is not the 'ambiguous' one, whatever the
\* parsed messages are (none, too) and also when both names are empty.
C8_MissingNameIncomplete ==
    (isCsvInput /\ (meName = <<>> \/ partnerName = <<>>)) =>
        LET bound == applySpeakerMapping(parsedPreview)
        IN  /\ ~bound.ok
            /\ bound.err = MsgIncomplete
            /\ bound.err # MsgAmbiguous
            /\ Parsed => error = MsgIncomplete

\* Parse met two empty names on a tabular text none of whose rows survived
C8_Witness ==
    /\ isCsvInput
    /\ parsedPreview = <<>>
    /\ meName = <<>> /\ partnerName = <<>>
    /\ error = MsgIncomplete

\* C10: when the binder fails during Parse, messages is the unbound parse
\* result (the preview of the same text, raw names and all) and error is
\* the binder's message.
C10_ParseKeepsPreview ==
    (Parsed /\ ~applySpeakerMapping(parsedPreview).ok) =>
        /\ messages = parsedPreview
        /\ error = applySpeakerMapping(parsedPreview).err

\* Parse failed to bind and shows the messages with their senders' names
C10_Witness ==
    /\ isCsvInput
    /\ ~applySpeakerMapping(parsedPreview).ok
    /\ error = MsgIncomplete
    /\ Len(messages) >= 2
    /\ messages = parsedPreview
    /\ \A i \in 1..Len(messages) : ~Canonical(messages[i].speaker)

\* C9: a step of onAnalyze or onAnalyzeWithCharacter in which the binder
\* fails sends no request and leaves messages, result and loading as they
\* were; error becomes non-empty.
C9_BinderFailureBlocks ==
    [][((onAnalyze \/ \E id \in CharacterIds : onAnalyzeWithCharacter(id))
            /\ ~applySpeakerMapping(parseChatAny(raw)).ok)
        => /\ inflight' = inflight
           /\ messages' = messages
           /\ result' = result
           /\ loading' = loading
           /\ error' # ""]_vars

\* an analysis of a labeled text was shown, the text was replaced by a
\* tabular one, and Analyze failed to bind it: messages and result are
\* still those of the labeled text
C9_Witness ==
    /\ isCsvInput
    /\ error \in {MsgIncomplete, MsgAmbiguous}
    /\ messages = parseChatAny(InitialRaw)
    /\ result = MOCK_RESULT
    /\ ~loading /\ inflight = <<>>

\* C11: for labeled-turn input the binder never fails and returns the
\* sequence of the preview, whatever meName and partnerName are.
C11_LabeledIgnoresBinding ==
    ~isCsvInput =>
        /\ applySpeakerMapping(parsedPreview) = Returned(parsedPreview)
        /\ Parsed => /\ messages = parsedPreview
                     /\ error \notin {MsgIncomplete, MsgAmbiguous}

\* Parse took a labeled text of two turns under two identical names
C11_Witness ==
    /\ ~isCsvInput
    /\ meName = NameA /\ partnerName = NameA
    /\ Len(messages) = 2
    /\ messages = parsedPreview
    /\ error = ""

\* C12 as stated: whenever postAnalyze or analyzeWithCharacter is called,
\* its messages payload has at least 2 messages.
C12_AtLeastTwoSent ==
    \A k \in 1..Len(inflight) :
        inflight[k].op \in {"postAnalyze", "analyzeWithCharacter"}
            => Len(inflight[k].messages) >= 2

HasQuote(text) == \E i \in 1..Len(text) : text[i] = DQ

\* C13: a text is tabular exactly when it holds the three characters ","
\* or a comma, a double-quoted field, a comma and the start of another
\* double-quoted field; the parser follows the detector, so a text without
\* a double quote always goes to the labeled-turn parser.
C13_DetectorRouting ==
    /\ isCsvInput <=> (Includes(raw, <<DQ, COMMA, DQ>>) \/ CsvRegexMatches(raw))
    /\ parsedPreview = IF isCsvInput THEN parseKakaoCsvRaw(raw) ELSE parseSimpleChat(raw)
    /\ ~HasQuote(raw) => ~isCsvInput /\ parsedPreview = parseSimpleChat(raw)
    /\ Parsed /\ ~HasQuote(raw) => \A i \in 1..Len(messages) : messages[i].speaker = ME
                                                              \/ messages[i].speaker = PARTNER

\* Parse took a text with commas and no double quote as one labeled turn
C13_Witness ==
    /\ ~HasQuote(raw)
    /\ Includes(raw, <<COMMA>>)
    /\ Len(messages) = 1
    /\ messages[1].speaker = ME
    /\ messages[1].text = raw

\* the membership-change notice pattern
IsNotice(t) == Includes(t, KoNimI) /\ (Includes(t, KoLeft) \/ Includes(t, KoInvited))

\* C14: no message of the tabular parser has a text that, trimmed, is
\* 'photo' or 'video' in any letter case, is empty, or is a membership
\* notice; the rows dropped for it take no id.
C14_NoSystemRows ==
    LET out == parseKakaoCsvRaw(raw)
    IN  \A k \in 1..Len(out) :
          LET t == Trim(out[k].text)
          IN  /\ toLowerCase(t) # PHOTO
              /\ toLowerCase(t) # VIDEO
              /\ t # <<>>
              /\ ~IsNotice(t)
              /\ out[k].id = MId(k)

\* Parse took a placeholder row, a notice row and an ordinary row
C14_Witness ==
    /\ raw = JoinLines(<<RowPhoto, RowNotice, RowA>>)
    /\ isCsvInput
    /\ Parsed
    /\ Len(parsedPreview) = 1
    /\ parsedPreview[1].id = MId(1)
    /\ parsedPreview[1].text = <<"h", "i">>

\* C15 as stated: no message of the preview, for tabular or labeled-turn
\* input, has a text for which isSystemLikeText is true.
C15_PreviewFiltered ==
    \A k \in 1..Len(parsedPreview) : ~isSystemLikeText(parsedPreview[k].text)

\* a field wrapped in one matching pair of double or single quotes
Wrapped(t) ==
    /\ Len(t) >= 2
    /\ (t[1] = DQ /\ t[Len(t)] = DQ) \/ (t[1] = SQ /\ t[Len(t)] = SQ)

\* C16 as stated: quote-stripping removes the one matching outer pair of a
\* field and leaves a field with partial or mismatched quoting, a lone quote
\* character included, as it is (white space around the field aside).
C16_OnlyOuterPairRemoved ==
    isCsvInput =>
        \A r \in 1..Len(PapaParse(raw)) :
          \A f \in 1..Len(PapaParse(raw)[r]) :
            LET t == Trim(PapaParse(raw)[r][f])
            IN  stripQuotes(PapaParse(raw)[r][f]) =
                    IF Wrapped(t) THEN SubSeq(t, 2, Len(t) - 1) ELSE t

\* the position of the first line that carries a label, Len + 1 without one
FirstLabel(lines) ==
    LET at == {k \in 1..Len(lines) : IsLabeled(Trim(lines[k]))}
    IN  IF at = {} THEN Len(lines) + 1 ELSE CHOOSE k \in at : \A j \in at : k <= j

\* the non-blank lines before the first label, trimmed
RECURSIVE LeadLines(_, _)
LeadLines(lines, n) ==
    IF n = 0 THEN <<>>
    ELSE IF Trim(lines[n]) = <<>> THEN LeadLines(lines, n - 1)
    ELSE Append(LeadLines(lines, n - 1), Trim(lines[n]))

\* C17: every message of the labeled-turn parser is by 'me' or 'partner'
\* and has a null timestamp; a non-blank line without a label opens a turn,
\* by 'me', only when none is open, which happens only before the first
\* labeled line, so that the lines before the first label form one message
\* by 'me'.
C17_LabeledRoles ==
    LET lines == SplitLines(raw)
        out   == parseSimpleChat(raw)
        first == FirstLabel(lines)
        lead  == LeadLines(lines, first - 1)
    IN  /\ \A k \in 1..Len(out) :
             (out[k].speaker = ME \/ out[k].speaker = PARTNER) /\ out[k].ts = Null
        /\ \A k \in 1..Len(lines) :
             LET before  == SimpleAfter(lines, k - 1)
                 trimmed == Trim(lines[k])
             IN  (trimmed # <<>> /\ ~IsLabeled(trimmed) /\ before.cur = <<>>) =>
                     /\ k < first
                     /\ before.msgs = <<>>
                     /\ SimpleAfter(lines, k).cur = <<Msg(MId(1), ME, Null, trimmed)>>
        /\ lead # <<>> =>
             /\ parseSimpleChat(JoinLines(SubSeq(lines, 1, first - 1))) =
                    <<Msg(MId(1), ME, Null, JoinLines(lead))>>
             /\ out[1] = Msg(MId(1), ME, Null, JoinLines(lead))

\* Parse took two lines without a label and then a partner turn
C17_Witness ==
    /\ raw = JoinLines(<<LineMore, LineIndented, LinePartner>>)
    /\ Len(messages) = 2
    /\ messages[1] = Msg(MId(1), ME, Null, <<"m", "o", "r", "e", NL, "t", "o", "o">>)
    /\ messages[2] = Msg(MId(2), PARTNER, Null, TextReply)

\* the text is empty or holds white space only
Blank(text) == \A i \in 1..Len(text) : text[i] \in WS

C19_ShortRowSkipped ==
    LET lines == SplitLines(raw)
        rows  == PapaParse(raw)
    IN  Len(rows) = Len(lines) =>
          \A j \in 1..Len(rows) :
            Len(rows[j]) < 3 =>
                parseKakaoCsvRaw(raw) = parseKakaoCsvRaw(JoinLines(RemoveAt(lines, j)))

\* Parse took a two-field row between two full rows
C19_Witness ==
    /\ raw = JoinLines(<<RowA, RowShort, RowBare>>)
    /\ Len(PapaParse(raw)) = 3
    /\ Len(PapaParse(raw)[2]) = 2
    /\ meName = <<>>
    /\ Len(messages) = 2
    /\ messages[1].id = MId(1) /\ messages[1].speaker = NameA
    /\ messages[2].id = MId(2) /\ messages[2].speaker = NameB

\* a speaker value the mapping panel offers: not empty, not a role name
Offered(name) == name # <<>> /\ name # ME /\ name # PARTNER

\* where a trimmed speaker value first appears in a message sequence
FirstAt(msgs, name) ==
    CHOOSE k \in 1..Len(msgs) :
        /\ Trim(msgs[k].speaker) = name
        /\ \A j \in 1..(k - 1) : Trim(msgs[j].speaker) # name

\* C20: uniqueSpeakers is the distinct, trimmed, non-empty speaker values of
\* the preview, without 'me' and 'partner', in the order of their first
\* appearance; it is empty for labeled-turn input.
C20_UniqueSpeakers ==
    LET S == uniqueSpeakers
        P == parsedPreview
    IN  /\ \A i, j \in 1..Len(S) : i # j => S[i] # S[j]
        /\ \A i \in 1..Len(S) :
             Offered(S[i]) /\ \E k \in 1..Len(P) : Trim(P[k].speaker) = S[i]
        /\ \A k \in 1..Len(P) :
             Offered(Trim(P[k].speaker)) => \E i \in 1..Len(S) : S[i] = Trim(P[k].speaker)
        /\ \A i, j \in 1..Len(S) : i < j => FirstAt(P, S[i]) < FirstAt(P, S[j])
        /\ ~isCsvInput => S = <<>>

\* Parse took a text whose senders are ' me ', B and A, in that order
C20_Witness ==
    /\ raw = JoinLines(<<RowCanon, RowBare, RowA>>)
    /\ Len(parsedPreview) = 3
    /\ parsedPreview[1].speaker = <<SP, "m", "e", SP>>
    /\ uniqueSpeakers = <<NameB, NameA>>
    /\ Parsed

\* C25 as stated: every message of a payload of saveCharacter has speaker
\* 'me' or 'partner'.
C25_SavedRolesOnly ==
    \A k \in 1..Len(inflight) :
        inflight[k].op = "saveCharacter" =>
            \A i \in 1..Len(inflight[k].messages) :
                Canonical(inflight[k].messages[i].speaker)

\* C23 as stated: a result that the backend computed is the analysis of
\* the message sequence that messages holds.
C23_ResultOfMessages ==
    result.kind = "analysis" => result.of = messages

\* C26 as stated: a non-empty meName or partnerName is one of the sender
\* names of the current text.
C26_BindingOfCurrentText ==
    /\ meName # <<>> => meName \in Range(uniqueSpeakers)
    /\ partnerName # <<>> => partnerName \in Range(uniqueSpeakers)

\* the analysis requests in flight, the mock delay included
AnalysisInFlight ==
    {k \in 1..Len(inflight) :
        inflight[k].op \in {"setTimeout", "postAnalyze", "analyzeWithCharacter"}}

\* C22 as stated: at most one analysis request is in flight at any time.
C22_OneAnalysisInFlight ==
    Cardinality(AnalysisInFlight) <= 1

\* C24: loading, once set by onAnalyze, onAnalyzeWithCharacter or
\* onLoadCharacter, is false again when the request settles, whichever way
\* it settles, and requests do settle; with nothing pending loading is false.
C24_LoadingReset ==
    /\ [](inflight = <<>> => ~loading)
    /\ [][Len(inflight') < Len(inflight) => ~loading']_vars
    /\ loading ~> ~loading

\* a request was rejected and loading is off again
C24_Witness ==
    /\ inflight = <<>>
    /\ ~loading
    /\ error = MsgRequestFailed
    /\ Len(messages) >= 2

\* two message sequences of the same length, speakers and texts
SameContent(a, b) ==
    /\ Len(a) = Len(b)
    /\ \A i \in 1..Len(a) : a[i].speaker = b[i].speaker /\ a[i].text = b[i].text

\* C27 as stated: the text that onLoadCharacter builds from a character's
\* messages parses back into messages of the same length, speakers and
\* texts, and Analyze then sends those.
C27_LoadRoundTrip ==
    \A id \in LoadIds :
        raw = ChatText(StoredMessages(id)) =>
            /\ SameContent(parsedPreview, StoredMessages(id))
            /\ \A k \in 1..Len(inflight) :
                 inflight[k].op = "postAnalyze" =>
                     SameContent(inflight[k].messages, StoredMessages(id))

\* the messages of the preview whose sender the mapping panel offers
OfferedMessages ==
    {k \in 1..Len(parsedPreview) : Offered(Trim(parsedPreview[k].speaker))}

\* the binding is the one Auto-assign makes of two names
AutoAssigned ==
    /\ Len(uniqueSpeakers) = 2
    /\ meName = uniqueSpeakers[1]
    /\ partnerName = uniqueSpeakers[2]

\* Auto-assign takes the first name as me and the second as partner when
\* there are exactly two, and changes no name otherwise
AssignsFirstTwo ==
    autoAssignIfTwo =>
        IF Len(uniqueSpeakers) = 2
        THEN meName' = uniqueSpeakers[1] /\ partnerName' = uniqueSpeakers[2]
        ELSE meName' = meName /\ partnerName' = partnerName

CallAsSpecified(c) ==
    /\ c.caller = NoUser =>
           c.stage = "thrown" /\ c.thrown = MsgNotAuthenticated /\ ~c.request
    /\ c.request => c.caller # NoUser /\ c.bearer = IdToken(c.caller)
    /\ c.stage \in {"fetch", "text", "json", "returned"} => c.request
    /\ c.stage = "returned" => Ok(c.status)
    /\ (c.status # NoStatus /\ ~Ok(c.status)) => c.stage \in {"text", "thrown"}

\* C21: every call of the six backend functions is made for the user signed
\* in when it is called and sends that user's ID token as the bearer; with
\* no current user it throws 'Not authenticated' and sends no request; a
\* response that is not ok ends in a thrown error, never in a returned value.
C21_TokenOrError ==
    /\ [](\A k \in 1..Len(calls) : CallAsSpecified(calls[k]))
    /\ [][Len(calls') > Len(calls) =>
              calls'[Len(calls')].caller = currentUser]_vars

\* one call threw on a 401 whose body was empty, another was refused for
\* want of a user
C21_Witness ==
    \E j, k \in 1..Len(calls) :
        /\ calls[j].stage = "thrown" /\ calls[j].status = 401
        /\ calls[j].thrown = MsgRequestFailed /\ calls[j].request
        /\ calls[k].caller = NoUser /\ calls[k].thrown = MsgNotAuthenticated

\* C29: once the observer has been called, initializing becomes false in
\* the end: at once for a signed-out user, and for a signed-in user after
\* the profile upsert, whether it succeeds or fails; the Loading screen
\* does not stay forever.
C29_LoadingEnds ==
    /\ [][(AuthStateChanged /\ currentUser = NoUser) => Screen' # "Loading"]_vars
    /\ (authCallbacks # <<>>) ~> (Screen # "Loading")

=============================================================================
